---- MODULE Spec2Model ----
(***************************************************************************)
(* SYCL GPU backend: the buffer memory storage (sycl_buffer_memory_storage_t), *)
(* the creation of memory objects by the SYCL GEMM entry points            *)
(* (create_memory_t), and the OpenCL-kernel dispatch                       *)
(* (sycl_ocl_gpu_kernel_t::parallel_for, set_scalar_arg, the destructor).  *)
(*                                                                         *)
(* Two specifications share the variables:                                 *)
(*   SpecStorage  the memory-storage operations on two storage objects;    *)
(*   Spec         the life of one compiled-kernel wrapper: the caller      *)
(*                stages an argument list, dispatches it, and at some      *)
(*                point destroys the wrapper.                              *)
(***************************************************************************)
EXTENDS Naturals, Sequences, FiniteSets, TLC

\* ------------------------------------------------------------------ bounds
MaxArgs == 3        \* longest argument list staged for one dispatch
NumAllocs == 2      \* device allocations the caller owns

\* nullptr, and "no object at this address" in the heap
NULL == 0

Allocs == 1..NumAllocs
Storages == {"s1", "s2"}
\* Heap addresses of buffer_u8_t objects.  The caller's own buffer object for
\* allocation a lives at address a; the others are taken by new/locals.
MaxAddr == NumAllocs + Cardinality(Storages) + 1
Addrs == 1..MaxAddr

\* dim_t offsets (in elements) and sizeof(T) passed to create_memory_t::call
OffsetElems == {0, 16, 1024}
SizeofT == {2, 4}

VARIABLES
    api,          \* MKLDNN_SYCL_MEMORY_API of the build: "BUFFER", "USM", "VPTR"
    ndebug,       \* whether the build defines NDEBUG (assert expands to nothing)
    stor,         \* the memory storages
    heap,         \* address -> allocation the buffer_u8_t object there refers to
    ret,          \* what the most recent storage operation returned
    ocl_kernel_,  \* sycl_ocl_gpu_kernel_t::ocl_kernel_
    alive,        \* the wrapper has not been destroyed
    released,     \* clReleaseKernel calls issued on ocl_kernel_
    args,         \* the argument list the caller has staged
    range,        \* the nd_range_t of the dispatch
    called,       \* parallel_for has been invoked on the staged list
    log,          \* what that invocation did to the queue, in order
    result        \* how that invocation ended

vars == <<api, ndebug, stor, heap, ret, ocl_kernel_, alive, released,
          args, range, called, log, result>>
storageVars == <<stor, heap, ret>>
kernelVars == <<ocl_kernel_, alive, released, args, range, called, log, result>>

\* =================================================================== storage

Absent == [live |-> FALSE, handle |-> NULL, offset |-> 0, mapped |-> FALSE,
           supplied |-> NULL]

\* No storage yet; the caller's buffer objects (or USM pointers) exist.
Mem0 == [stor |-> [s \in Storages |-> Absent],
         heap |-> [a \in Addrs |-> IF a \in Allocs THEN a ELSE NULL]]

\* The address operator new / a new local gets: the lowest one not in use.
NewAddr(h) == CHOOSE a \in Addrs : h[a] = NULL /\ \A b \in Addrs : h[b] = NULL => a <= b

\* The underlying data a handle refers to: the allocation behind a buffer
\* object, or the pointer itself.
Data(mode, h, hnd) == IF mode = "BUFFER" THEN h[hnd] ELSE hnd

\* Handles a caller can pass: a live buffer object, or a USM pointer.
ValidHandles(mode, h) ==
    IF mode = "BUFFER" THEN {a \in Addrs : h[a] # NULL} ELSE Allocs

\* Mutant: the old buffer object is not deleted when buffer_ is reset.
SetDataHandleBufferLeak(m, s, hnd) ==
    LET n == NewAddr(m.heap) IN
    [stor |-> [m.stor EXCEPT ![s].handle = n,
                             ![s].supplied = m.heap[hnd]],
     heap |-> [m.heap EXCEPT ![n] = m.heap[hnd]]]

\* Mutant: buffer_ keeps what it held; the supplied handle is ignored.
SetDataHandleBufferKeep(m, s, hnd) ==
    [stor |-> [m.stor EXCEPT ![s].supplied = m.heap[hnd]], heap |-> m.heap]

\* sycl_buffer_memory_storage_t::set_data_handle:
\*   buffer_.reset(new buffer_u8_t(*buf_u8_ptr));
\* the copy is a new buffer object on the same allocation; reset then deletes
\* the object buffer_ owned before.
SetDataHandleBuffer(m, s, hnd) ==
    LET n == NewAddr(m.heap)
        old == m.stor[s].handle
        h1 == [m.heap EXCEPT ![n] = m.heap[hnd]]
        h2 == IF old # NULL THEN [h1 EXCEPT ![old] = NULL] ELSE h1
    IN [stor |-> [m.stor EXCEPT ![s].handle = n,
                                ![s].supplied = m.heap[hnd]],
        heap |-> h2]

\* Pointer-backed storage keeps the pointer it is given.
SetDataHandleUsm(m, s, hnd) ==
    [stor |-> [m.stor EXCEPT ![s].handle = hnd, ![s].supplied = hnd],
     heap |-> m.heap]

SetDataHandleOp(mode, m, s, hnd) ==
    IF mode = "BUFFER" THEN SetDataHandleBuffer(m, s, hnd)
    ELSE SetDataHandleUsm(m, s, hnd)

\* sycl_buffer_memory_storage_t::get_data_handle: buffer_.get()
GetDataHandleOp(m, s) == m.stor[s].handle

\* Mutant: the offset set on the storage is reported.
BaseOffsetStored(m, s) == m.stor[s].offset

\* sycl_buffer_memory_storage_t::base_offset: return 0
BaseOffsetBuffer(m, s) == 0

\* Pointer-backed storage: the handle already points at the logical start.
BaseOffsetUsm(m, s) == 0

BaseOffsetOp(mode, m, s) ==
    IF mode = "BUFFER" THEN BaseOffsetBuffer(m, s) ELSE BaseOffsetUsm(m, s)

\* create_memory_t<buffer>::call: reinterpret the caller's buffer into the
\* local buf_u8, create the memory with no handle, set_data_handle(&buf_u8),
\* set_offset(offset * sizeof(T)); buf_u8 dies at the return.
CreateMemoryBuffer(m, s, hnd, off, sz) ==
    LET t == NewAddr(m.heap)
        m1 == [stor |-> [m.stor EXCEPT ![s] = [Absent EXCEPT !.live = TRUE]],
               heap |-> [m.heap EXCEPT ![t] = m.heap[hnd]]]
        m2 == SetDataHandleOp("BUFFER", m1, s, t)
    IN [stor |-> [m2.stor EXCEPT ![s].offset = off * sz],
        heap |-> [m2.heap EXCEPT ![t] = NULL]]

\* create_memory_t<usm>::call: the memory is created on the pointer itself.
CreateMemoryUsm(m, s, hnd, off, sz) ==
    [stor |-> [m.stor EXCEPT ![s] = [live |-> TRUE, handle |-> hnd,
                                     offset |-> off * sz, mapped |-> FALSE,
                                     supplied |-> hnd]],
     heap |-> m.heap]

CreateMemoryOp(mode, m, s, hnd, off, sz) ==
    IF mode = "BUFFER" THEN CreateMemoryBuffer(m, s, hnd, off, sz)
    ELSE CreateMemoryUsm(m, s, hnd, off, sz)

\* Destruction of a storage: the shared_ptr member buffer_ deletes its object.
DestroyOp(mode, m, s) ==
    LET old == m.stor[s].handle IN
    [stor |-> [m.stor EXCEPT ![s] = Absent],
     heap |-> IF mode = "BUFFER" /\ old # NULL
              THEN [m.heap EXCEPT ![old] = NULL] ELSE m.heap]

Mem == [stor |-> stor, heap |-> heap]
NoRet == [op |-> "none", s |-> "none", status |-> "none", value |-> 0, arg |-> 0]

CreateMemory(s) ==
    /\ ~stor[s].live
    /\ \E hnd \in Allocs, off \in OffsetElems, sz \in SizeofT :
          LET m == CreateMemoryOp(api, Mem, s, hnd, off, sz) IN
          /\ stor' = m.stor
          /\ heap' = m.heap
          /\ ret' = [op |-> "create", s |-> s, status |-> "success",
                     value |-> 0, arg |-> off * sz]
    /\ UNCHANGED <<api, ndebug, kernelVars>>

SetDataHandle(s) ==
    /\ stor[s].live
    /\ \E hnd \in ValidHandles(api, heap) :
          LET m == SetDataHandleOp(api, Mem, s, hnd) IN
          /\ stor' = m.stor
          /\ heap' = m.heap
          /\ ret' = [op |-> "set_data_handle", s |-> s, status |-> "success",
                     value |-> 0, arg |-> hnd]
    /\ UNCHANGED <<api, ndebug, kernelVars>>

GetDataHandle(s) ==
    /\ stor[s].live
    /\ ret' = [op |-> "get_data_handle", s |-> s, status |-> "success",
               value |-> GetDataHandleOp(Mem, s), arg |-> 0]
    /\ UNCHANGED <<api, ndebug, stor, heap, kernelVars>>

BaseOffset(s) ==
    /\ stor[s].live
    /\ ret' = [op |-> "base_offset", s |-> s, status |-> "success",
               value |-> BaseOffsetOp(api, Mem, s), arg |-> 0]
    /\ UNCHANGED <<api, ndebug, stor, heap, kernelVars>>

\* map_data / unmap_data are paired: no second map without an unmap.
MapData(s) ==
    /\ stor[s].live /\ ~stor[s].mapped
    /\ stor' = [stor EXCEPT ![s].mapped = TRUE]
    /\ ret' = [op |-> "map_data", s |-> s, status |-> "success",
               value |-> 0, arg |-> 0]
    /\ UNCHANGED <<api, ndebug, heap, kernelVars>>

UnmapData(s) ==
    /\ stor[s].live /\ stor[s].mapped
    /\ stor' = [stor EXCEPT ![s].mapped = FALSE]
    /\ ret' = [op |-> "unmap_data", s |-> s, status |-> "success",
               value |-> 0, arg |-> 0]
    /\ UNCHANGED <<api, ndebug, heap, kernelVars>>

DestroyStorage(s) ==
    /\ stor[s].live
    /\ LET m == DestroyOp(api, Mem, s) IN
          /\ stor' = m.stor
          /\ heap' = m.heap
    /\ ret' = [op |-> "destroy", s |-> s, status |-> "success",
               value |-> 0, arg |-> 0]
    /\ UNCHANGED <<api, ndebug, kernelVars>>

\* =================================================================== dispatch

\* compute::kernel_arg_t: a scalar (its size and raw bytes) or a global
\* argument (a memory storage, possibly the null one).
ScalarArg(bytes) ==
    [global |-> FALSE, size |-> Len(bytes), bytes |-> bytes, storage |-> "none"]
GlobalArg(s) ==
    [global |-> TRUE, size |-> 0, bytes |-> <<>>, storage |-> s]

\* The scalars a caller passes: 1, 2, 4 and 8 bytes wide, and a 3-byte one.
ScalarPool == { <<7>>, <<1, 1>>, <<7, 0, 0, 0>>, <<9, 0, 0, 0, 0, 0, 0, 0>>,
                <<1, 2, 3>> }
ArgPool == {ScalarArg(b) : b \in ScalarPool}
           \cup {GlobalArg(s) : s \in Storages \cup {"null"}}

\* compute::nd_range_t: the global extent, and the local one when there is one.
Ranges == [global : {0, 64}, has_local : BOOLEAN, local : {16}]

\* The value of the unsigned integer stored in these bytes (little endian).
RECURSIVE LittleEndian(_)
LittleEndian(bytes) ==
    IF bytes = <<>> THEN 0 ELSE Head(bytes) + 256 * LittleEndian(Tail(bytes))

\* What a call does to the queue, one record per step.
KernelCtor ==
    [ev |-> "kernel", slot |-> 0, kind |-> "none", width |-> 0, value |-> 0, buf |-> 0]
Submit ==
    [ev |-> "submit", slot |-> 0, kind |-> "none", width |-> 0, value |-> 0, buf |-> 0]
SetArgScalar(index, width, value) ==
    [ev |-> "set_arg", slot |-> index, kind |-> "uint", width |-> width,
     value |-> value, buf |-> 0]
SetArgAccessor(index, b, data) ==
    [ev |-> "set_arg", slot |-> index, kind |-> "read_write", width |-> 0,
     value |-> data, buf |-> b]
SetArgNull(index) ==
    [ev |-> "set_arg", slot |-> index, kind |-> "nullptr", width |-> 0,
     value |-> 0, buf |-> 0]
Dispatch(shape, r) ==
    [ev |-> "parallel_for", slot |-> 0, kind |-> shape, width |-> 0,
     value |-> r.global, buf |-> IF shape = "nd_range" THEN r.local ELSE 0]

\* assert(e) with e false: nothing under NDEBUG, abort() otherwise.
FailedAssert(nd) == IF nd THEN "ok" ELSE "abort"

\* Mutant: an unknown size is bound as its first byte.
set_scalar_arg_truncating(nd, index, size, value) ==
    IF size \in {1, 2, 4, 8}
    THEN [events |-> <<SetArgScalar(index, size, LittleEndian(SubSeq(value, 1, size)))>>,
          status |-> "ok"]
    ELSE [events |-> <<SetArgScalar(index, 1, LittleEndian(SubSeq(value, 1, 1)))>>,
          status |-> "ok"]

\* set_scalar_arg: the value is read as the unsigned integer of that size;
\* any other size asserts, then throws.
set_scalar_arg(nd, index, size, value) ==
    IF size \in {1, 2, 4, 8}
    THEN [events |-> <<SetArgScalar(index, size, LittleEndian(SubSeq(value, 1, size)))>>,
          status |-> "ok"]
    ELSE [events |-> <<>>,
          status |-> IF FailedAssert(nd) = "abort" THEN "abort" ELSE "runtime_error"]

\* parallel_for, the is_global() branch of the loop body.
BindGlobal(mode, nd, m, index, s) ==
    IF s # "null"
    THEN CASE mode = "BUFFER" ->
                [events |-> <<SetArgAccessor(index, m.stor[s].handle,
                                             Data(mode, m.heap, m.stor[s].handle))>>,
                 status |-> "ok"]
           [] mode = "USM" ->
                [events |-> <<>>, status |-> FailedAssert(nd)]
           [] mode = "VPTR" ->
                [events |-> <<SetArgAccessor(index, m.stor[s].handle,
                                             Data(mode, m.heap, m.stor[s].handle))>>,
                 status |-> "ok"]
    ELSE [events |-> <<SetArgNull(index)>>, status |-> "ok"]

\* parallel_for, the loop body for slot index.
BindArg(mode, nd, m, index, arg) ==
    IF arg.global THEN BindGlobal(mode, nd, m, index, arg.storage)
    ELSE set_scalar_arg(nd, index, arg.size, arg.bytes)

\* Mutant: the loop runs from the last argument down to the first.
RECURSIVE BindArgsDown(_, _, _, _, _, _)
BindArgsDown(mode, nd, m, al, i, done) ==
    IF i >= Len(al) THEN [log |-> done, status |-> "ok"]
    ELSE LET r == BindArg(mode, nd, m, Len(al) - 1 - i, al[Len(al) - i]) IN
         IF r.status = "ok"
         THEN BindArgsDown(mode, nd, m, al, i + 1, done \o r.events)
         ELSE [log |-> done \o r.events, status |-> r.status]

\* parallel_for: for (int i = 0; i < arg_list.nargs(); ++i), from slot i on.
RECURSIVE BindArgs(_, _, _, _, _, _)
BindArgs(mode, nd, m, al, i, done) ==
    IF i >= Len(al) THEN [log |-> done, status |-> "ok"]
    ELSE LET r == BindArg(mode, nd, m, i, al[i + 1]) IN
         IF r.status = "ok"
         THEN BindArgs(mode, nd, m, al, i + 1, done \o r.events)
         ELSE [log |-> done \o r.events, status |-> r.status]

\* nd_range_t::is_zero
IsZero(r) == r.global = 0

\* Mutant: the local range is ignored.
SubmissionShapeFlat(r) == "range"

\* parallel_for: if (range.local_range()) nd_range, else range.
SubmissionShape(r) == IF r.has_local THEN "nd_range" ELSE "range"

\* Mutant: the zero range is not returned on; it is submitted like any other.
ParallelForOpNoZeroCheck(mode, nd, k, m, r, al) ==
    IF mode = "USM" /\ FailedAssert(nd) = "abort"
    THEN [log |-> <<>>, result |-> "abort"]
    ELSE IF k = NULL
    THEN [log |-> <<>>, result |-> "runtime_error"]
    ELSE LET b == BindArgs(mode, nd, m, al, 0, <<KernelCtor, Submit>>) IN
         IF b.status = "ok"
         THEN [log |-> b.log \o <<Dispatch(SubmissionShape(r), r)>>,
               result |-> "success"]
         ELSE [log |-> b.log, result |-> b.status]

\* sycl_ocl_gpu_kernel_t::parallel_for, as the log of what it did and how it
\* ended: "success", "runtime_error" (an exception leaves the call) or
\* "abort" (a failed assert).
ParallelForOp(mode, nd, k, m, r, al) ==
    IF mode = "USM" /\ FailedAssert(nd) = "abort"
    THEN [log |-> <<>>, result |-> "abort"]
    ELSE IF IsZero(r) THEN [log |-> <<>>, result |-> "success"]
    ELSE IF k = NULL
    THEN \* cl::sycl::kernel cannot be built from a null cl_kernel
         [log |-> <<>>, result |-> "runtime_error"]
    ELSE LET b == BindArgs(mode, nd, m, al, 0, <<KernelCtor, Submit>>) IN
         IF b.status = "ok"
         THEN [log |-> b.log \o <<Dispatch(SubmissionShape(r), r)>>,
               result |-> "success"]
         ELSE [log |-> b.log, result |-> b.status]

\* Mutant: the kernel is released without the null check.
ReleasesAtDestructionUnguarded(k) == 1

\* ~sycl_ocl_gpu_kernel_t: if (ocl_kernel_) clReleaseKernel(ocl_kernel_)
ReleasesAtDestruction(k) == IF k # NULL THEN 1 ELSE 0

Running == alive /\ result # "abort"

\* The caller adds one argument to the list it is staging.
AppendArg ==
    /\ Running /\ ~called /\ Len(args) < MaxArgs
    /\ \E a \in ArgPool : args' = Append(args, a)
    /\ UNCHANGED <<api, ndebug, storageVars, ocl_kernel_, alive, released,
                   range, called, log, result>>

ParallelFor ==
    /\ Running /\ ~called
    /\ \E r \in Ranges :
          LET o == ParallelForOp(api, ndebug, ocl_kernel_, Mem, r, args) IN
          /\ range' = r
          /\ log' = o.log
          /\ result' = o.result
    /\ called' = TRUE
    /\ UNCHANGED <<api, ndebug, storageVars, ocl_kernel_, alive, released, args>>

\* The call is over; the caller starts staging the next argument list.
NewArgList ==
    /\ Running /\ called
    /\ args' = <<>>
    /\ called' = FALSE
    /\ log' = <<>>
    /\ result' = "none"
    /\ UNCHANGED <<api, ndebug, storageVars, ocl_kernel_, alive, released, range>>

DestroyKernel ==
    /\ Running
    /\ released' = released + ReleasesAtDestruction(ocl_kernel_)
    /\ alive' = FALSE
    /\ UNCHANGED <<api, ndebug, storageVars, ocl_kernel_, args, range, called,
                   log, result>>

\* ============================================================ specifications

NoRange == [global |-> 0, has_local |-> FALSE, local |-> 16]

\* The storages the dispatched arguments refer to: s1 on the first allocation
\* and s2 on the last.
DispatchMem(mode) ==
    CreateMemoryOp(mode,
        CreateMemoryOp(mode, Mem0, "s1", 1, 0, 4),
        "s2", NumAllocs, 16, 4)

Init ==
    /\ api \in {"BUFFER", "USM", "VPTR"}
    /\ ndebug \in BOOLEAN
    /\ stor = DispatchMem(api).stor
    /\ heap = DispatchMem(api).heap
    /\ ret = NoRet
    /\ ocl_kernel_ \in {NULL, 1}
    /\ alive = TRUE
    /\ released = 0
    /\ args = <<>>
    /\ range = NoRange
    /\ called = FALSE
    /\ log = <<>>
    /\ result = "none"

Next == AppendArg \/ ParallelFor \/ NewArgList \/ DestroyKernel

Spec == Init /\ [][Next]_vars

InitStorage ==
    /\ api \in {"BUFFER", "USM"}
    /\ ndebug = FALSE
    /\ stor = Mem0.stor
    /\ heap = Mem0.heap
    /\ ret = NoRet
    /\ ocl_kernel_ = NULL
    /\ alive = TRUE
    /\ released = 0
    /\ args = <<>>
    /\ range = NoRange
    /\ called = FALSE
    /\ log = <<>>
    /\ result = "none"

NextStorage ==
    \E s \in Storages :
        \/ CreateMemory(s)
        \/ SetDataHandle(s)
        \/ GetDataHandle(s)
        \/ BaseOffset(s)
        \/ MapData(s)
        \/ UnmapData(s)
        \/ DestroyStorage(s)

SpecStorage == InitStorage /\ [][NextStorage]_vars

\* ==================================================================== claims

\* Positions of the log holding an event of this kind, and the bindings.
Positions(e) == {i \in 1..Len(log) : log[i].ev = e}
Bindings(index) == {i \in Positions("set_arg") : log[i].slot = index}
SlotsOf(al) == 0..(Len(al) - 1)
NonZeroCall == called /\ range.global # 0
SubmissionOpened == NonZeroCall /\ Positions("submit") # {}
Enqueued == NonZeroCall /\ Positions("parallel_for") # {}
BadScalar(a) == ~a.global /\ a.size \notin {1, 2, 4, 8}
\* The first slot holding a scalar of unsupported width (the length if none).
FirstBad == CHOOSE f \in 0..Len(args) :
                /\ \A j \in 0..(f - 1) : ~BadScalar(args[j + 1])
                /\ f < Len(args) => BadScalar(args[f + 1])
\* A slot the binding loop passes without binding anything: a non-null global
\* argument in a USM build (assert(false) compiled out).
Skipped(index) ==
    /\ api = "USM"
    /\ args[index + 1].global
    /\ args[index + 1].storage # "null"
\* The bytes of an unsigned integer of n bytes, lowest first.
RECURSIVE BytesOf(_, _)
BytesOf(v, n) == IF n = 0 THEN <<>> ELSE <<v % 256>> \o BytesOf(v \div 256, n - 1)

\* C1 (as stated): a zero range always returns success and does nothing to the
\* queue: no kernel object, no submission, no binding, no dispatch.
C1_ZeroRangeAlwaysSucceeds ==
    (called /\ range.global = 0) => (result = "success" /\ log = <<>>)

\* C1 (amended): a zero range never touches the queue, in any build, and
\* returns success in every build but a USM build with assertions enabled,
\* where the "not implemented" assertion at entry aborts the call first.
C1_ZeroRangeUntouched ==
    (called /\ range.global = 0) =>
        /\ log = <<>>
        /\ result = IF api = "USM" /\ ~ndebug THEN "abort" ELSE "success"

C1_Witness ==
    /\ called /\ range.global = 0 /\ result = "success"
    /\ Len(args) >= 2 /\ ocl_kernel_ # NULL

\* C2 (as stated): the submission binds slots 0, 1, ..., N-1 in this order,
\* each exactly once, and then enqueues the dispatch.
C2_AllSlotsBoundInOrder ==
    SubmissionOpened =>
        /\ \A index \in SlotsOf(args) : Cardinality(Bindings(index)) = 1
        /\ \A i, j \in Positions("set_arg") : i < j => log[i].slot < log[j].slot
        /\ Positions("parallel_for") = {Len(log)}

\* C2 (amended): the submission binds slots in strictly increasing index
\* order, each at most once, every binding after the submission is opened and
\* before the dispatch.  The slots bound are those below the first scalar of
\* unsupported width, less the slots of non-null global arguments in a USM
\* build (skipped there); the dispatch is enqueued, last, exactly when no
\* scalar has an unsupported width.
C2_BindingOrder ==
    SubmissionOpened =>
        /\ Cardinality(Positions("submit")) = 1
        /\ \A i, j \in Positions("set_arg") : i < j => log[i].slot < log[j].slot
        /\ \A i \in Positions("set_arg") :
              /\ \A p \in Positions("submit") : p < i
              /\ \A d \in Positions("parallel_for") : i < d
        /\ \A index \in SlotsOf(args) :
              Cardinality(Bindings(index)) =
                  IF index < FirstBad /\ ~Skipped(index) THEN 1 ELSE 0
        /\ \A i \in Positions("set_arg") : log[i].slot \in SlotsOf(args)
        /\ Positions("parallel_for") =
              IF FirstBad = Len(args) THEN {Len(log)} ELSE {}

C2_Witness ==
    /\ SubmissionOpened /\ api = "BUFFER" /\ result = "success"
    /\ Len(args) >= 3
    /\ Cardinality(Positions("set_arg")) = Len(args)

\* C3: a scalar of 1, 2, 4 or 8 bytes that the binding loop reaches is bound at
\* its slot as the unsigned integer of that width whose bytes are the
\* argument's; a scalar of any other width is never bound, at any width, and a
\* dispatch whose list holds one does not return success.
C3_ScalarWidth ==
    NonZeroCall =>
        /\ \A i \in Positions("set_arg") :
              log[i].kind = "uint" =>
                  LET a == args[log[i].slot + 1] IN
                  /\ ~a.global
                  /\ a.size \in {1, 2, 4, 8}
                  /\ log[i].width = a.size
                  /\ BytesOf(log[i].value, log[i].width) = a.bytes
        /\ \A index \in SlotsOf(args) :
              LET a == args[index + 1] IN
              /\ (~a.global /\ ~BadScalar(a) /\ SubmissionOpened /\ index < FirstBad)
                    => \E i \in Bindings(index) : log[i].kind = "uint"
              /\ BadScalar(a) => (Bindings(index) = {} /\ result # "success")
        /\ (SubmissionOpened /\ FirstBad < Len(args)) =>
              result = IF ndebug THEN "runtime_error" ELSE "abort"

C3_Witness ==
    /\ NonZeroCall /\ SubmissionOpened
    /\ Len(args) >= 2
    /\ ~args[1].global /\ args[1].size = 4
    /\ BadScalar(args[2])
    /\ result = "runtime_error"
    /\ Bindings(0) # {} /\ Bindings(1) = {}

\* C4: in an enqueued non-zero dispatch every global argument is bound at its
\* slot: a null storage as a null reference, a non-null storage as a
\* read-write accessor on that storage's own buffer.
C4_GlobalBinding ==
    Enqueued =>
        \A index \in SlotsOf(args) :
            LET a == args[index + 1] IN
            a.global =>
                /\ Cardinality(Bindings(index)) = 1
                /\ \A i \in Bindings(index) :
                      IF a.storage = "null"
                      THEN log[i].kind = "nullptr"
                      ELSE /\ log[i].kind = "read_write"
                           /\ log[i].buf = stor[a.storage].handle
                           /\ log[i].value = stor[a.storage].supplied

\* C5: the one dispatch a non-zero call enqueues is grouped (global, local)
\* exactly when the range has a local extent and flat otherwise, whatever the
\* arguments; [int32 7, storage s1, null] over global 64 with no local extent
\* gives slot 0 = 4-byte 7, slot 1 = s1's buffer, slot 2 = null, flat.
C5_Shape ==
    NonZeroCall =>
        /\ Cardinality(Positions("parallel_for")) = IF result = "success" THEN 1 ELSE 0
        /\ \A d \in Positions("parallel_for") :
              /\ d = Len(log)
              /\ log[d].kind = IF range.has_local THEN "nd_range" ELSE "range"
              /\ log[d].value = range.global
              /\ range.has_local => log[d].buf = range.local
        /\ ( /\ args = <<ScalarArg(<<7, 0, 0, 0>>), GlobalArg("s1"), GlobalArg("null")>>
             /\ range.global = 64 /\ ~range.has_local
             /\ ocl_kernel_ # NULL /\ api # "USM" )
           => /\ result = "success"
              /\ Len(log) = 6
              /\ log[3].slot = 0 /\ log[3].kind = "uint"
              /\ log[3].width = 4 /\ log[3].value = 7
              /\ log[4].slot = 1 /\ log[4].kind = "read_write"
              /\ log[4].buf = stor["s1"].handle
              /\ log[5].slot = 2 /\ log[5].kind = "nullptr"
              /\ log[6].ev = "parallel_for" /\ log[6].kind = "range"

C5_Witness ==
    /\ NonZeroCall /\ api = "BUFFER"
    /\ args = <<ScalarArg(<<7, 0, 0, 0>>), GlobalArg("s1"), GlobalArg("null")>>
    /\ range.global = 64 /\ ~range.has_local
    /\ result = "success"

\* C6 (as stated): base_offset() is 0 for pointer-backed storage and the byte
\* offset supplied for the storage when it is buffer-backed.
C6_BaseOffsetIsSuppliedOffset ==
    ret.op = "base_offset" =>
        ret.value = IF api = "BUFFER" THEN stor[ret.s].offset ELSE 0

\* C6 (amended): base_offset() is always 0, for buffer-backed storage as for
\* pointer-backed storage, whatever byte offset was supplied for the storage
\* and whatever happened in between.
C6_BaseOffsetZero ==
    ret.op = "base_offset" => (ret.status = "success" /\ ret.value = 0)

C6_Witness ==
    /\ ret.op = "base_offset" /\ api = "BUFFER"
    /\ stor[ret.s].offset = 4096 /\ stor[ret.s].mapped
    /\ ret.value = 0

\* C7: get_data_handle succeeds and returns a handle on the same underlying
\* data as the handle most recently given to set_data_handle.
C7_GetAfterSet ==
    ret.op = "get_data_handle" =>
        /\ ret.status = "success"
        /\ ret.value # NULL
        /\ Data(api, heap, ret.value) # NULL
        /\ Data(api, heap, ret.value) = stor[ret.s].supplied

C7_Witness ==
    /\ ret.op = "get_data_handle" /\ api = "BUFFER"
    /\ stor[ret.s].supplied = 2
    /\ ret.value \notin Allocs
    /\ \E t \in Storages : t # ret.s /\ stor[t].live /\ stor[t].supplied = 1

\* C8: in a USM build a parallel_for dispatch (of a non-zero range) never
\* returns success, and never enqueues a dispatch that left a non-null global
\* argument unbound.
C8_UsmDispatchFails ==
    (api = "USM" /\ NonZeroCall) =>
        /\ result # "success"
        /\ Enqueued => \A index \in SlotsOf(args) :
                          (args[index + 1].global /\ args[index + 1].storage # "null")
                              => Bindings(index) # {}

\* C9: the native kernel is released once, at destruction, when the wrapper
\* holds one, and never otherwise: not before destruction (so not by
\* parallel_for), not twice, not when ocl_kernel_ is null.
C9_ReleasedOnce ==
    /\ released <= 1
    /\ alive => released = 0
    /\ ~alive => released = IF ocl_kernel_ # NULL THEN 1 ELSE 0

C9_Witness ==
    /\ ~alive /\ ocl_kernel_ # NULL /\ released = 1
    /\ called /\ result = "success" /\ Enqueued

\* C10: every live buffer-backed storage owns one buffer object of its own on
\* the allocation most recently supplied to it; the references to an
\* allocation are the caller's one plus one per live storage bound to it.
C10_Ownership ==
    api = "BUFFER" =>
        /\ \A a \in Allocs : heap[a] = a
        /\ \A s \in Storages :
              stor[s].live =>
                  /\ stor[s].handle \in Addrs \ Allocs
                  /\ heap[stor[s].handle] = stor[s].supplied
        /\ \A s, t \in Storages :
              (s # t /\ stor[s].live /\ stor[t].live) => stor[s].handle # stor[t].handle
        /\ \A a \in Allocs :
              Cardinality({x \in Addrs : heap[x] = a})
                  = 1 + Cardinality({s \in Storages : stor[s].live /\ stor[s].supplied = a})

C10_Witness ==
    /\ api = "BUFFER" /\ ret.op = "set_data_handle"
    /\ \A s \in Storages : stor[s].live /\ stor[s].supplied = 2
    /\ \E s \in Storages : stor[s].offset = 64

====
